---------------------------- MODULE Spec2Model ----------------------------
(***************************************************************************)
(* The colony simulation engine of Elitev2: GameState (src/src/            *)
(* game_state.py), Building (src/src/buildings.py) and the command         *)
(* handlers of the frame loop (src/src/main.py, src/src/ui.py).            *)
(*                                                                         *)
(* GameState takes its configuration as a constructor argument (the tests  *)
(* pass a MockConfig).  The model is checked for the small configuration   *)
(* defined below: it keeps the shape of src/src/config.py (the type keys   *)
(* the code dispatches on, the fields each kind of type carries) with      *)
(* small numbers, so that overload, rank-up, population change and         *)
(* production all happen within a few ticks on a 3 x 1 grid.               *)
(*                                                                         *)
(* Every method is an operator from a state record to a state record,      *)
(* translated statement by statement; an action applies one operator to    *)
(* the current state.                                                      *)
(***************************************************************************)
EXTENDS Integers, Sequences, FiniteSets, TLC

VARIABLES credits, population, power_capacity, power_demand, resources,
          buildings, grid, game_time, city_rank_index, city_value,
          unlocked_technologies, current_alerts, time_multiplier,
          resource_grid,
          \* game_loop's locals and UIManager's alert timer
          game_paused, previous_time_multiplier, alert_timer

vars == <<credits, population, power_capacity, power_demand, resources,
          buildings, grid, game_time, city_rank_index, city_value,
          unlocked_technologies, current_alerts, time_multiplier,
          resource_grid, game_paused, previous_time_multiplier, alert_timer>>

(***************************************************************************)
(* Bounds of the model.                                                    *)
(***************************************************************************)
\* tick() is not taken once game_time has reached MaxTime
MaxTime == 3
\* a run takes at most MaxCommands place and remove commands
MaxCommands == 2

(***************************************************************************)
(* The configuration (config.py).                                          *)
(***************************************************************************)
FPS == 2
INITIAL_CREDITS == 6
INITIAL_POPULATION == 3
INITIAL_POWER == 1
GRID_WIDTH == 3
GRID_HEIGHT == 1
DEFAULT_TIME_MULTIPLIER == 1
TIME_MULTIPLIER_OPTIONS == {1, 5}

\* Python's None, for a string-valued field
None == "None"

\* Python's None, for a grid cell
NoBuilding == [id |-> 0, type_key |-> None]

RESOURCE_TYPES == {"RAW_ORE", "IRON_ORE", "CONSTRUCTION_PARTS"}

RESOURCE_NODE_TYPES == {"IRON_NODE", "COPPER_NODE"}

CITY_RANKS ==
    << [name |-> "Outpost Surveyor",  threshold_value |-> 0],
       [name |-> "Colony Starter",    threshold_value |-> 1],
       [name |-> "Colony Supervisor", threshold_value |-> 2],
       [name |-> "Urban Planner",     threshold_value |-> 3],
       [name |-> "System Governor",   threshold_value |-> 4],
       [name |-> "Elite Urbanist",    threshold_value |-> 6] >>

\* what Building.__init__ reads with config.get(key, default)
TypeDefaults ==
    [cost |-> 0, power_draw |-> 0, power_gen |-> 0, income |-> 0,
     width_tiles |-> 1, height_tiles |-> 1, capacity |-> 0,
     output_rate |-> 0, resource_type |-> None, placed_on_node_type |-> None,
     input_resource |-> None, input_amount |-> 0, output_resource |-> None,
     cycle_time_seconds |-> 5,
     has_pop |-> FALSE, pop |-> 0, has_rank |-> FALSE, rank |-> None,
     has_tech |-> FALSE, tech |-> None]

BUILDING_TYPES ==
    [k \in {"COMMAND_CENTER", "HAB_DOME", "SOLAR_PANEL_ARRAY", "POWER_CONDUIT",
            "RESOURCE_EXTRACTOR", "MINER_IRON", "FACTORY_PARTS",
            "FUEL_REFINERY", "SPACEPORT"} |->
       CASE k = "COMMAND_CENTER" ->
              [cost |-> 3, power_draw |-> 2] @@ TypeDefaults
         [] k = "HAB_DOME" ->
              [cost |-> 1, power_draw |-> 1, capacity |-> 4, income |-> 1]
                 @@ TypeDefaults
         [] k = "SOLAR_PANEL_ARRAY" ->
              [cost |-> 2, power_gen |-> 1] @@ TypeDefaults
         [] k = "POWER_CONDUIT" ->
              [cost |-> 1, power_draw |-> 0] @@ TypeDefaults
         [] k = "RESOURCE_EXTRACTOR" ->
              [cost |-> 2, power_draw |-> 1, output_rate |-> 1,
               resource_type |-> "RAW_ORE", has_pop |-> TRUE, pop |-> 3]
                 @@ TypeDefaults
         [] k = "MINER_IRON" ->
              [cost |-> 2, power_draw |-> 2, output_rate |-> 1,
               resource_type |-> "IRON_ORE",
               placed_on_node_type |-> "IRON_NODE",
               has_pop |-> TRUE, pop |-> 2] @@ TypeDefaults
         [] k = "FACTORY_PARTS" ->
              [cost |-> 2, power_draw |-> 1, input_resource |-> "RAW_ORE",
               input_amount |-> 2, output_resource |-> "CONSTRUCTION_PARTS",
               output_rate |-> 1, cycle_time_seconds |-> 2,
               has_pop |-> TRUE, pop |-> 1] @@ TypeDefaults
         [] k = "FUEL_REFINERY" ->
              [cost |-> 3, power_draw |-> 1, input_resource |-> "OIL",
               input_amount |-> 2, output_resource |-> "SPACESHIP_FUEL",
               output_rate |-> 1, cycle_time_seconds |-> 3,
               has_pop |-> TRUE, pop |-> 1,
               has_tech |-> TRUE, tech |-> "fuel_processing"] @@ TypeDefaults
         [] k = "SPACEPORT" ->
              [cost |-> 3, power_draw |-> 2, width_tiles |-> 2,
               has_rank |-> TRUE, rank |-> "Colony Starter"] @@ TypeDefaults]

TypeKeys == DOMAIN BUILDING_TYPES

Cells == (0 .. GRID_WIDTH - 1) \X (0 .. GRID_HEIGHT - 1)

\* the resource-node layout _generate_resource_nodes left on the grid: a tile
\* of each node type and a tile with none
NodeLayout ==
    [c \in Cells |-> IF c = <<0, 0>> THEN "IRON_NODE"
                     ELSE IF c = <<1, 0>> THEN "COPPER_NODE" ELSE None]

NodeAt(s, grid_x, grid_y) == s.resource_grid[<<grid_x, grid_y>>]

(***************************************************************************)
(* The state as one record, and its assignment to the variables.           *)
(***************************************************************************)
State ==
    [credits |-> credits, population |-> population,
     power_capacity |-> power_capacity, power_demand |-> power_demand,
     resources |-> resources, buildings |-> buildings, grid |-> grid,
     game_time |-> game_time, city_rank_index |-> city_rank_index,
     city_value |-> city_value,
     unlocked_technologies |-> unlocked_technologies,
     current_alerts |-> current_alerts, time_multiplier |-> time_multiplier,
     resource_grid |-> resource_grid]

\* the fields of the GameState object become those of n
Assign(n) ==
    /\ credits' = n.credits
    /\ population' = n.population
    /\ power_capacity' = n.power_capacity
    /\ power_demand' = n.power_demand
    /\ resources' = n.resources
    /\ buildings' = n.buildings
    /\ grid' = n.grid
    /\ game_time' = n.game_time
    /\ city_rank_index' = n.city_rank_index
    /\ city_value' = n.city_value
    /\ unlocked_technologies' = n.unlocked_technologies
    /\ current_alerts' = n.current_alerts
    /\ time_multiplier' = n.time_multiplier
    /\ resource_grid' = n.resource_grid

\* a handler that works on the GameState object alone: the locals of
\* game_loop and the alert timer of the UIManager stay as they are
Becomes(n) ==
    /\ Assign(n)
    /\ UNCHANGED <<game_paused, previous_time_multiplier, alert_timer>>

\* GameState.__init__
InitialState ==
    [credits |-> INITIAL_CREDITS, population |-> INITIAL_POPULATION,
     power_capacity |-> INITIAL_POWER, power_demand |-> 0,
     resources |-> [r \in RESOURCE_TYPES |-> 0], buildings |-> <<>>,
     grid |-> [c \in Cells |-> NoBuilding],
     game_time |-> 0, city_rank_index |-> 0, city_value |-> 0,
     unlocked_technologies |-> {}, current_alerts |-> <<>>,
     time_multiplier |-> DEFAULT_TIME_MULTIPLIER,
     resource_grid |-> NodeLayout]

Alert(text, subject) == [text |-> text, subject |-> subject]

Max(a, b) == IF a >= b THEN a ELSE b
Min(a, b) == IF a <= b THEN a ELSE b


(***************************************************************************)
(* Building (buildings.py).  A building is a record: the fields __init__   *)
(* copies from its type's configuration are read from BUILDING_TYPES by    *)
(* type_key; id stands for the object's identity (the grid holds           *)
(* references to building objects).                                        *)
(***************************************************************************)
Cfg(b) == BUILDING_TYPES[b.type_key]

\* Building.__init__
NewBuilding(id, type_key, grid_x, grid_y) ==
    [id |-> id, type_key |-> type_key, grid_x |-> grid_x, grid_y |-> grid_y,
     is_operational |-> TRUE, production_timer_ticks |-> 0]

\* GameState.has_sufficient_power
has_sufficient_power(s) == s.power_capacity >= s.power_demand

\* a consumer that lost power stays off
OperationalStatus_latched(s, b) ==
    IF Cfg(b).power_gen > 0 THEN TRUE
    ELSE IF Cfg(b).power_draw > 0
         THEN b.is_operational /\ has_sufficient_power(s)
    ELSE TRUE

\* Building.update, rules 1 to 3: the new value of is_operational
OperationalStatus(s, b) ==
    IF Cfg(b).power_gen > 0 THEN TRUE
    ELSE IF Cfg(b).power_draw > 0 THEN has_sufficient_power(s)
    ELSE IF Cfg(b).power_draw = 0 /\ Cfg(b).power_gen = 0 THEN TRUE
    ELSE b.is_operational

\* Building.update: income of an operational building
IncomeStep(s, b) ==
    IF Cfg(b).income > 0 /\ s.game_time % FPS = 0
    THEN [s EXCEPT !.credits = @ + Cfg(b).income * s.time_multiplier]
    ELSE s

IsExtractorKey(k) ==
    k \in {"RESOURCE_EXTRACTOR", "PUMPJACK", "MINER_IRON", "MINER_COPPER"}

IsFactoryKey(k) == k \in {"FUEL_REFINERY", "FACTORY_PARTS"}

\* the node under the extractor is not looked at
CanProduce_anywhere(s, b) == TRUE

\* Building.update: can_produce of an extractor
CanProduce(s, b) ==
    IF Cfg(b).placed_on_node_type # None
    THEN NodeAt(s, b.grid_x, b.grid_y) = Cfg(b).placed_on_node_type
    ELSE TRUE

\* Building.update: the extractor branch
ExtractorStep(s, b) ==
    IF /\ CanProduce(s, b)
       /\ Cfg(b).resource_type # None
       /\ s.game_time % FPS = 0
       /\ Cfg(b).resource_type \in DOMAIN s.resources
    THEN [s EXCEPT !.resources[Cfg(b).resource_type] =
                       @ + Cfg(b).output_rate * s.time_multiplier]
    ELSE s

\* resources.get(key, 0)
ResGet(res, key) == IF key \in DOMAIN res THEN res[key] ELSE 0

\* resources[key] = value, which adds the key when it is missing
ResPut(res, key, value) ==
    [k \in DOMAIN res \cup {key} |-> IF k = key THEN value ELSE res[k]]

\* every completed cycle is run, whatever the stock of the input
RECURSIVE RunCycles_unchecked(_, _, _)
RunCycles_unchecked(res, c, n) ==
    IF n = 0 THEN res
    ELSE LET debited == ResPut(res, c.input_resource,
                               ResGet(res, c.input_resource) - c.input_amount)
         IN RunCycles_unchecked(ResPut(debited, c.output_resource,
                                       ResGet(debited, c.output_resource)
                                          + c.output_rate),
                                c, n - 1)

\* Building.update: the loop over the completed cycles of a factory
RECURSIVE RunCycles(_, _, _)
RunCycles(res, c, n) ==
    IF n = 0 THEN res
    ELSE IF ResGet(res, c.input_resource) >= c.input_amount
         THEN LET debited == ResPut(res, c.input_resource,
                                    res[c.input_resource] - c.input_amount)
              IN RunCycles(ResPut(debited, c.output_resource,
                                  ResGet(debited, c.output_resource)
                                     + c.output_rate),
                           c, n - 1)
         ELSE res

\* the timer advances by one per update, whatever the time multiplier
FactoryStep_unscaled(s, i) ==
    LET b == s.buildings[i]
        c == Cfg(b)
    IN IF /\ c.input_resource # None /\ c.output_resource # None
          /\ c.input_amount > 0 /\ c.output_rate > 0
       THEN LET timer == b.production_timer_ticks + 1
                required_ticks_for_cycle == c.cycle_time_seconds * FPS
            IN IF timer >= required_ticks_for_cycle
               THEN LET num_cycles_completed == timer \div required_ticks_for_cycle
                        res == RunCycles(s.resources, c, num_cycles_completed)
                        rest == timer % required_ticks_for_cycle
                        stalled ==
                            /\ num_cycles_completed = 0
                            /\ rest >= required_ticks_for_cycle
                            /\ ResGet(res, c.input_resource) < c.input_amount
                    IN [s EXCEPT !.resources = res,
                                 !.buildings[i].production_timer_ticks =
                                     IF stalled THEN required_ticks_for_cycle
                                     ELSE rest]
               ELSE [s EXCEPT !.buildings[i].production_timer_ticks = timer]
       ELSE s

\* one cycle is run per update, however many have completed
FactoryStep_single_cycle(s, i) ==
    LET b == s.buildings[i]
        c == Cfg(b)
    IN IF /\ c.input_resource # None /\ c.output_resource # None
          /\ c.input_amount > 0 /\ c.output_rate > 0
       THEN LET timer == b.production_timer_ticks + 1 * s.time_multiplier
                required_ticks_for_cycle == c.cycle_time_seconds * FPS
            IN IF timer >= required_ticks_for_cycle
               THEN [s EXCEPT !.resources = RunCycles(s.resources, c, 1),
                              !.buildings[i].production_timer_ticks =
                                  timer % required_ticks_for_cycle]
               ELSE [s EXCEPT !.buildings[i].production_timer_ticks = timer]
       ELSE s

\* Building.update: the factory branch, for the building at index i
FactoryStep(s, i) ==
    LET b == s.buildings[i]
        c == Cfg(b)
    IN IF /\ c.input_resource # None /\ c.output_resource # None
          /\ c.input_amount > 0 /\ c.output_rate > 0
       THEN LET timer == b.production_timer_ticks + 1 * s.time_multiplier
                required_ticks_for_cycle == c.cycle_time_seconds * FPS
            IN IF timer >= required_ticks_for_cycle
               THEN LET num_cycles_completed == timer \div required_ticks_for_cycle
                        res == RunCycles(s.resources, c, num_cycles_completed)
                        rest == timer % required_ticks_for_cycle
                        stalled ==
                            /\ num_cycles_completed = 0
                            /\ rest >= required_ticks_for_cycle
                            /\ ResGet(res, c.input_resource) < c.input_amount
                    IN [s EXCEPT !.resources = res,
                                 !.buildings[i].production_timer_ticks =
                                     IF stalled THEN required_ticks_for_cycle
                                     ELSE rest]
               ELSE [s EXCEPT !.buildings[i].production_timer_ticks = timer]
       ELSE s

\* the work is done whatever the status
BuildingUpdate_works_offline(s, i) ==
    LET b == s.buildings[i]
        op == OperationalStatus(s, b)
        s1 == [s EXCEPT !.buildings[i].is_operational = op]
        s2 == IncomeStep(s1, b)
    IN IF IsExtractorKey(b.type_key) THEN ExtractorStep(s2, b)
       ELSE IF IsFactoryKey(b.type_key) THEN FactoryStep(s2, i)
       ELSE s2

\* Building.update(game_state), for the building at index i of the list
BuildingUpdate(s, i) ==
    LET b == s.buildings[i]
        op == OperationalStatus(s, b)
        s1 == [s EXCEPT !.buildings[i].is_operational = op]
    IN IF ~op THEN s1
       ELSE LET s2 == IncomeStep(s1, b)
            IN IF IsExtractorKey(b.type_key) THEN ExtractorStep(s2, b)
               ELSE IF IsFactoryKey(b.type_key) THEN FactoryStep(s2, i)
               ELSE s2

\* for building in self.buildings: building.update(self)
RECURSIVE UpdateFrom(_, _)
UpdateFrom(s, i) ==
    IF i > Len(s.buildings) THEN s
    ELSE UpdateFrom(BuildingUpdate(s, i), i + 1)

UpdateAll(s) == UpdateFrom(s, 1)


(***************************************************************************)
(* GameState (game_state.py).  A grid cell holds None or a reference to a  *)
(* building object; the reference is modelled by the object's identity and *)
(* type, which is all remove_building reads through it.                    *)
(***************************************************************************)
Ref(b) == [id |-> b.id, type_key |-> b.type_key]

InGrid(x, y) == 0 <= x /\ x < GRID_WIDTH /\ 0 <= y /\ y < GRID_HEIGHT

\* the cells of a width x height footprint whose top-left cell is (x, y)
Footprint(type_key, x, y) ==
    { <<x + c_offset, y + r_offset>> :
         c_offset \in 0 .. BUILDING_TYPES[type_key].width_tiles - 1,
         r_offset \in 0 .. BUILDING_TYPES[type_key].height_tiles - 1 }

\* the identities of the objects the state still refers to
IdsInUse(s) ==
    { s.buildings[i].id : i \in DOMAIN s.buildings }
       \cup { s.grid[c].id : c \in Cells }

\* the identity of a newly constructed object: one not in use
FreshId(s) ==
    CHOOSE n \in 1 .. Cardinality(IdsInUse(s)) + 1 :
        /\ n \notin IdsInUse(s)
        /\ \A m \in 1 .. n - 1 : m \in IdsInUse(s)

RECURSIVE SumOver(_, _, _)
\* the sum of f[q[i]] over the indices i >= from of the sequence q
SumOver(q, f, from) ==
    IF from > Len(q) THEN 0 ELSE f[from] + SumOver(q, f, from + 1)

\* the base power left out of the capacity
update_power_balance_no_base(s) ==
    LET gen == [i \in DOMAIN s.buildings |->
                   IF s.buildings[i].is_operational
                   THEN Cfg(s.buildings[i]).power_gen ELSE 0]
        draw == [i \in DOMAIN s.buildings |->
                   IF s.buildings[i].is_operational
                   THEN Cfg(s.buildings[i]).power_draw ELSE 0]
    IN [s EXCEPT !.power_capacity = SumOver(s.buildings, gen, 1),
                 !.power_demand = SumOver(s.buildings, draw, 1)]

\* the draw of an offline consumer is counted as well
update_power_balance_counts_offline(s) ==
    LET gen == [i \in DOMAIN s.buildings |->
                   IF s.buildings[i].is_operational
                      /\ Cfg(s.buildings[i]).power_gen > 0
                   THEN Cfg(s.buildings[i]).power_gen ELSE 0]
        draw == [i \in DOMAIN s.buildings |->
                   IF Cfg(s.buildings[i]).power_draw > 0
                   THEN Cfg(s.buildings[i]).power_draw ELSE 0]
    IN [s EXCEPT !.power_capacity = INITIAL_POWER + SumOver(s.buildings, gen, 1),
                 !.power_demand = SumOver(s.buildings, draw, 1)]

\* GameState.update_power_balance
update_power_balance(s) ==
    LET gen == [i \in DOMAIN s.buildings |->
                   IF s.buildings[i].is_operational
                      /\ Cfg(s.buildings[i]).power_gen > 0
                   THEN Cfg(s.buildings[i]).power_gen ELSE 0]
        draw == [i \in DOMAIN s.buildings |->
                   IF s.buildings[i].is_operational
                      /\ Cfg(s.buildings[i]).power_draw > 0
                   THEN Cfg(s.buildings[i]).power_draw ELSE 0]
        new_power_capacity == INITIAL_POWER + SumOver(s.buildings, gen, 1)
        new_power_demand == SumOver(s.buildings, draw, 1)
    IN [s EXCEPT !.power_capacity = new_power_capacity,
                 !.power_demand = new_power_demand]

\* housing that is offline counts as well
PopulationCapacity_counts_offline(s) ==
    LET cap == [i \in DOMAIN s.buildings |->
                   IF s.buildings[i].type_key = "HAB_DOME"
                   THEN Cfg(s.buildings[i]).capacity ELSE 0]
    IN SumOver(s.buildings, cap, 1)

\* update_resources_and_population: current_population_capacity after the loop
PopulationCapacity(s) ==
    LET cap == [i \in DOMAIN s.buildings |->
                   IF s.buildings[i].is_operational
                      /\ s.buildings[i].type_key = "HAB_DOME"
                   THEN Cfg(s.buildings[i]).capacity ELSE 0]
    IN SumOver(s.buildings, cap, 1)

\* update_resources_and_population divides by time_multiplier with no guard:
\* ZeroDivisionError when the multiplier is 0
DivisionByZero(s) == s.time_multiplier = 0

\* growth scaled by the time multiplier
AdjustPopulation_scaled(s) ==
    LET current_population_capacity == PopulationCapacity(s)
        pop_growth_interval_ticks == Max(1, (FPS * 5) \div s.time_multiplier)
        pop_decline_interval_ticks == Max(1, (FPS * 2) \div s.time_multiplier)
    IN IF s.population < current_population_capacity
       THEN IF s.game_time % pop_growth_interval_ticks = 0
            THEN [s EXCEPT !.population = s.population + s.time_multiplier]
            ELSE s
       ELSE IF s.population > current_population_capacity
            THEN IF s.game_time % pop_decline_interval_ticks = 0
                 THEN [s EXCEPT !.population = Max(0, s.population - 1)]
                 ELSE s
            ELSE s

\* the intervals are those of multiplier 1, whatever the multiplier
AdjustPopulation_fixed_interval(s) ==
    LET current_population_capacity == PopulationCapacity(s)
        pop_growth_interval_ticks == FPS * 5
        pop_decline_interval_ticks == FPS * 2
    IN IF s.population < current_population_capacity
       THEN IF s.game_time % pop_growth_interval_ticks = 0
            THEN [s EXCEPT !.population =
                       Min(s.population + 1, current_population_capacity)]
            ELSE s
       ELSE IF s.population > current_population_capacity
            THEN IF s.game_time % pop_decline_interval_ticks = 0
                 THEN [s EXCEPT !.population = Max(0, s.population - 1)]
                 ELSE s
            ELSE s

\* update_resources_and_population: the population step, time_multiplier # 0
AdjustPopulation(s) ==
    LET current_population_capacity == PopulationCapacity(s)
        pop_growth_interval_ticks == Max(1, (FPS * 5) \div s.time_multiplier)
        pop_decline_interval_ticks == Max(1, (FPS * 2) \div s.time_multiplier)
    IN IF s.population < current_population_capacity
       THEN IF s.game_time % pop_growth_interval_ticks = 0
            THEN [s EXCEPT !.population =
                       Min(s.population + 1, current_population_capacity)]
            ELSE s
       ELSE IF s.population > current_population_capacity
            THEN IF s.game_time % pop_decline_interval_ticks = 0
                 THEN [s EXCEPT !.population = Max(0, s.population - 1)]
                 ELSE s
            ELSE s

\* GameState.update_resources_and_population; when it raises, the state is
\* the one the exception leaves
update_resources_and_population(s) ==
    LET s1 == UpdateAll(s)
    IN IF DivisionByZero(s1) THEN s1 ELSE AdjustPopulation(s1)

\* the promotion is not announced
check_for_rank_up_silent(s) ==
    IF s.city_rank_index + 1 >= Len(CITY_RANKS) THEN s
    ELSE LET next_rank_info == CITY_RANKS[s.city_rank_index + 2]
         IN IF s.city_value >= next_rank_info.threshold_value
            THEN [s EXCEPT !.city_rank_index = @ + 1]
            ELSE s

\* GameState.check_for_rank_up
check_for_rank_up(s) ==
    IF s.city_rank_index + 1 >= Len(CITY_RANKS) THEN s
    ELSE LET next_rank_info == CITY_RANKS[s.city_rank_index + 2]
         IN IF s.city_value >= next_rank_info.threshold_value
            THEN [s EXCEPT !.city_rank_index = @ + 1,
                           !.current_alerts =
                               Append(@, Alert("Promoted to", next_rank_info.name))]
            ELSE s

\* whether tick() returns: update_resources_and_population raises
\* ZeroDivisionError when the multiplier is 0, and tick() has no handler
tick_completes(s) == ~DivisionByZero(s)

\* the rank is not looked at in the tick
tick_without_rank(s) ==
    LET s1 == [s EXCEPT !.game_time = @ + 1]
        s2 == UpdateAll(s1)
        s3 == update_power_balance(s2)
    IN update_resources_and_population(s3)

\* game_time advances by the time multiplier
tick_scaled(s) ==
    LET s1 == [s EXCEPT !.game_time = @ + s.time_multiplier]
        s2 == UpdateAll(s1)
        s3 == update_power_balance(s2)
        s4 == update_resources_and_population(s3)
    IN IF DivisionByZero(s3) THEN s4 ELSE check_for_rank_up(s4)

\* GameState.tick; when update_resources_and_population raises, the state is
\* the one the exception leaves
tick(s) ==
    LET s1 == [s EXCEPT !.game_time = @ + 1]
        s2 == UpdateAll(s1)
        s3 == update_power_balance(s2)
        s4 == update_resources_and_population(s3)
    IN IF DivisionByZero(s3) THEN s4 ELSE check_for_rank_up(s4)

\* only the origin cell is marked
add_building_origin_only(s, type_key, grid_x, grid_y) ==
    LET b == NewBuilding(FreshId(s), type_key, grid_x, grid_y)
        s1 == [s EXCEPT !.buildings = Append(@, b),
                        !.grid[<<grid_x, grid_y>>] = Ref(b),
                        !.credits = @ - Cfg(b).cost,
                        !.city_value = @ + Cfg(b).cost]
    IN check_for_rank_up(update_power_balance(s1))

\* GameState.add_building, with the Building the caller constructed for it
add_building(s, type_key, grid_x, grid_y) ==
    LET b == NewBuilding(FreshId(s), type_key, grid_x, grid_y)
        fp == Footprint(type_key, grid_x, grid_y)
        s1 == [s EXCEPT !.buildings = Append(@, b),
                        !.grid = [c \in Cells |->
                                     IF c \in fp THEN Ref(b) ELSE s.grid[c]],
                        !.credits = @ - Cfg(b).cost,
                        !.city_value = @ + Cfg(b).cost]
    IN check_for_rank_up(update_power_balance(s1))

\* list.remove(x): the list without its first element whose identity is id
RemoveId(q, id) ==
    LET first == CHOOSE i \in DOMAIN q :
                    q[i].id = id /\ \A j \in 1 .. i - 1 : q[j].id # id
    IN [i \in 1 .. Len(q) - 1 |-> IF i < first THEN q[i] ELSE q[i + 1]]

\* city_value left as it was
remove_building_keeps_value(s, grid_x, grid_y) ==
    LET building_to_remove == s.grid[<<grid_x, grid_y>>]
    IN IF building_to_remove = NoBuilding THEN s
       ELSE LET fp == Footprint(building_to_remove.type_key, grid_x, grid_y)
                s1 == [s EXCEPT
                         !.grid = [c \in Cells |->
                                     IF c \in fp THEN NoBuilding ELSE s.grid[c]],
                         !.buildings = RemoveId(@, building_to_remove.id)]
            IN check_for_rank_up(update_power_balance(s1))

\* the rank follows the city value down
remove_building_demotes(s, grid_x, grid_y) ==
    LET building_to_remove == s.grid[<<grid_x, grid_y>>]
    IN IF building_to_remove = NoBuilding THEN s
       ELSE LET fp == Footprint(building_to_remove.type_key, grid_x, grid_y)
                cost == BUILDING_TYPES[building_to_remove.type_key].cost
                listed == \E i \in DOMAIN s.buildings :
                             s.buildings[i].id = building_to_remove.id
                value == Max(0, s.city_value - cost)
                s1 == [s EXCEPT
                         !.grid = [c \in Cells |->
                                     IF c \in fp THEN NoBuilding ELSE s.grid[c]],
                         !.buildings =
                             IF listed THEN RemoveId(@, building_to_remove.id)
                             ELSE @,
                         !.city_value = value,
                         !.city_rank_index =
                             IF value < CITY_RANKS[@ + 1].threshold_value
                             THEN @ - 1 ELSE @]
            IN check_for_rank_up(update_power_balance(s1))

\* GameState.remove_building
remove_building(s, grid_x, grid_y) ==
    LET building_to_remove == s.grid[<<grid_x, grid_y>>]
    IN IF building_to_remove = NoBuilding THEN s
       ELSE LET fp == Footprint(building_to_remove.type_key, grid_x, grid_y)
                cost == BUILDING_TYPES[building_to_remove.type_key].cost
                listed == \E i \in DOMAIN s.buildings :
                             s.buildings[i].id = building_to_remove.id
                s1 == [s EXCEPT
                         !.grid = [c \in Cells |->
                                     IF c \in fp THEN NoBuilding ELSE s.grid[c]],
                         !.buildings =
                             IF listed THEN RemoveId(@, building_to_remove.id)
                             ELSE @,
                         !.city_value = Max(0, @ - cost)]
            IN check_for_rank_up(update_power_balance(s1))

\* GameState.is_building_unlocked
RankIndexOf(name) ==
    IF \E i \in DOMAIN CITY_RANKS : CITY_RANKS[i].name = name
    THEN (CHOOSE i \in DOMAIN CITY_RANKS : CITY_RANKS[i].name = name) - 1
    ELSE -1

\* a rank name that is not in the catalog is not looked at
ConditionsHold_unknown_rank(s, c) ==
    IF ~c.has_pop /\ ~c.has_rank /\ ~c.has_tech THEN TRUE
    ELSE IF c.has_pop /\ s.population < c.pop THEN FALSE
    ELSE IF c.has_rank /\ s.city_rank_index < RankIndexOf(c.rank) THEN FALSE
    ELSE IF c.has_tech /\ c.tech \notin s.unlocked_technologies THEN FALSE
    ELSE TRUE

\* is_building_unlocked, from the unlock_conditions c of the type on
ConditionsHold(s, c) ==
    IF ~c.has_pop /\ ~c.has_rank /\ ~c.has_tech THEN TRUE
    ELSE IF c.has_pop /\ s.population < c.pop THEN FALSE
    ELSE IF c.has_rank /\ (RankIndexOf(c.rank) = -1
                           \/ s.city_rank_index < RankIndexOf(c.rank))
         THEN FALSE
    ELSE IF c.has_tech /\ c.tech \notin s.unlocked_technologies
         THEN FALSE
    ELSE TRUE

is_building_unlocked(s, building_key) ==
    IF building_key \notin TypeKeys THEN FALSE
    ELSE ConditionsHold(s, BUILDING_TYPES[building_key])


(***************************************************************************)
(* Snapshots (game_state.py) and the commands of the frame loop (main.py,  *)
(* ui.py).                                                                 *)
(***************************************************************************)
\* GameState.get_save_data
get_save_data(s) ==
    [credits |-> s.credits, population |-> s.population,
     power_capacity |-> s.power_capacity, power_demand |-> s.power_demand,
     resources |-> s.resources,
     buildings_data |-> [i \in DOMAIN s.buildings |->
                            [type_key |-> s.buildings[i].type_key,
                             grid_x |-> s.buildings[i].grid_x,
                             grid_y |-> s.buildings[i].grid_y]],
     grid_width |-> GRID_WIDTH, grid_height |-> GRID_HEIGHT,
     game_time |-> s.game_time, city_rank_index |-> s.city_rank_index,
     city_value |-> s.city_value,
     unlocked_technologies |-> s.unlocked_technologies,
     resource_grid |-> s.resource_grid]

\* load_from_data: a structure record it can read; b_data["type_key"],
\* b_data["grid_x"] or b_data["grid_y"] raises KeyError for any other
WellFormedRecord(b_data) ==
    {"type_key", "grid_x", "grid_y"} \subseteq DOMAIN b_data

\* the number of records the loop has rebuilt when it ends: all of them, or
\* those before the first record that raises
RecordsRead(data) ==
    IF \A i \in DOMAIN data.buildings_data :
          WellFormedRecord(data.buildings_data[i])
    THEN Len(data.buildings_data)
    ELSE (CHOOSE i \in DOMAIN data.buildings_data :
             /\ ~WellFormedRecord(data.buildings_data[i])
             /\ \A j \in 1 .. i - 1 : WellFormedRecord(data.buildings_data[j]))
         - 1

\* whether the loop over buildings_data raises
RecordRaises(data) == RecordsRead(data) < Len(data.buildings_data)

\* load_from_data: the buildings rebuilt from buildings_data, in order
LoadedBuildings(data) ==
    [i \in 1 .. RecordsRead(data) |->
        NewBuilding(i, data.buildings_data[i].type_key,
                    data.buildings_data[i].grid_x,
                    data.buildings_data[i].grid_y)]

\* load_from_data: the grid after each rebuilt building marked its footprint,
\* a later building overwriting an earlier one
LoadedGrid(bs) ==
    [c \in Cells |->
        IF \E i \in DOMAIN bs :
              c \in Footprint(bs[i].type_key, bs[i].grid_x, bs[i].grid_y)
        THEN LET last == CHOOSE i \in DOMAIN bs :
                    /\ c \in Footprint(bs[i].type_key, bs[i].grid_x, bs[i].grid_y)
                    /\ \A j \in DOMAIN bs :
                          c \in Footprint(bs[j].type_key, bs[j].grid_x, bs[j].grid_y)
                             => j <= i
             IN Ref(bs[last])
        ELSE NoBuilding]

\* GameState.load_from_data, with a snapshot that has the fields of one that
\* get_save_data produced: the state it leaves, also when a structure record
\* or update_resources_and_population raises and the except clause returns
\* False
load_from_data(s, data) ==
    LET bs == LoadedBuildings(data)
        s1 == [s EXCEPT !.credits = data.credits,
                        !.population = data.population,
                        !.resources = data.resources,
                        !.game_time = data.game_time,
                        !.city_rank_index = data.city_rank_index,
                        !.city_value = data.city_value,
                        !.unlocked_technologies = data.unlocked_technologies,
                        !.resource_grid = data.resource_grid,
                        !.buildings = bs,
                        !.grid = LoadedGrid(bs)]
        s2 == update_power_balance(s1)
        s3 == UpdateAll(s2)
        s4 == update_resources_and_population(s3)
    IN IF RecordRaises(data) THEN s1
       ELSE IF DivisionByZero(s3) THEN s4 ELSE check_for_rank_up(s4)

\* what load_from_data returns
load_succeeds(s, data) == ~RecordRaises(data) /\ ~DivisionByZero(s)

\* main.load_game, with the snapshot read from the save file
load_game(s, data) ==
    LET n == load_from_data(s, data)
    IN IF load_succeeds(s, data)
       THEN [n EXCEPT !.current_alerts = Append(@, Alert("Game Loaded!", None))]
       ELSE [n EXCEPT !.current_alerts =
                          Append(@, Alert("Failed to load game!", None))]

\* the credits are compared with the cost before the unlock conditions are
\* looked at
PlaceCommand_funds_first(s, building_key, grid_x, grid_y) ==
    LET building_data == BUILDING_TYPES[building_key]
        building_w == building_data.width_tiles
        building_h == building_data.height_tiles
        say(text, subject) ==
            [s EXCEPT !.current_alerts = Append(@, Alert(text, subject))]
    IN IF s.credits < building_data.cost
       THEN say("Insufficient Credits!", None)
       ELSE IF ~is_building_unlocked(s, building_key)
       THEN say("is Locked!", building_key)
       ELSE IF ~(/\ 0 <= grid_x /\ grid_x < GRID_WIDTH - (building_w - 1)
                 /\ 0 <= grid_y /\ grid_y < GRID_HEIGHT - (building_h - 1))
       THEN say("Out of Bounds!", None)
       ELSE IF \E c \in Footprint(building_key, grid_x, grid_y) :
                  s.grid[c] # NoBuilding
       THEN say("Tile Occupied!", None)
       ELSE LET s1 == add_building(s, building_key, grid_x, grid_y)
            IN [s1 EXCEPT !.current_alerts =
                              Append(@, Alert("Placed.", building_key))]

\* the footprint is not compared with the grid
PlaceCommand_overbuilds(s, building_key, grid_x, grid_y) ==
    LET building_data == BUILDING_TYPES[building_key]
        building_w == building_data.width_tiles
        building_h == building_data.height_tiles
        say(text, subject) ==
            [s EXCEPT !.current_alerts = Append(@, Alert(text, subject))]
    IN IF ~is_building_unlocked(s, building_key)
       THEN say("is Locked!", building_key)
       ELSE IF s.credits < building_data.cost
       THEN say("Insufficient Credits!", None)
       ELSE IF ~(/\ 0 <= grid_x /\ grid_x < GRID_WIDTH - (building_w - 1)
                 /\ 0 <= grid_y /\ grid_y < GRID_HEIGHT - (building_h - 1))
       THEN say("Out of Bounds!", None)
       ELSE LET s1 == add_building(s, building_key, grid_x, grid_y)
            IN [s1 EXCEPT !.current_alerts =
                              Append(@, Alert("Placed.", building_key))]

\* a locked type that is also too expensive is refused with both alerts
PlaceCommand_both_alerts(s, building_key, grid_x, grid_y) ==
    LET building_data == BUILDING_TYPES[building_key]
        building_w == building_data.width_tiles
        building_h == building_data.height_tiles
        say(text, subject) ==
            [s EXCEPT !.current_alerts = Append(@, Alert(text, subject))]
    IN IF ~is_building_unlocked(s, building_key)
       THEN IF s.credits < building_data.cost
            THEN [s EXCEPT !.current_alerts =
                     Append(Append(@, Alert("is Locked!", building_key)),
                            Alert("Insufficient Credits!", None))]
            ELSE say("is Locked!", building_key)
       ELSE IF s.credits < building_data.cost
       THEN say("Insufficient Credits!", None)
       ELSE IF ~(/\ 0 <= grid_x /\ grid_x < GRID_WIDTH - (building_w - 1)
                 /\ 0 <= grid_y /\ grid_y < GRID_HEIGHT - (building_h - 1))
       THEN say("Out of Bounds!", None)
       ELSE IF \E c \in Footprint(building_key, grid_x, grid_y) :
                  s.grid[c] # NoBuilding
       THEN say("Tile Occupied!", None)
       ELSE LET s1 == add_building(s, building_key, grid_x, grid_y)
            IN [s1 EXCEPT !.current_alerts =
                              Append(@, Alert("Placed.", building_key))]

\* the credits are not compared with the cost
PlaceCommand_unfunded(s, building_key, grid_x, grid_y) ==
    LET building_data == BUILDING_TYPES[building_key]
        building_w == building_data.width_tiles
        building_h == building_data.height_tiles
        say(text, subject) ==
            [s EXCEPT !.current_alerts = Append(@, Alert(text, subject))]
    IN IF ~is_building_unlocked(s, building_key)
       THEN say("is Locked!", building_key)
       ELSE IF ~(/\ 0 <= grid_x /\ grid_x < GRID_WIDTH - (building_w - 1)
                 /\ 0 <= grid_y /\ grid_y < GRID_HEIGHT - (building_h - 1))
       THEN say("Out of Bounds!", None)
       ELSE IF \E c \in Footprint(building_key, grid_x, grid_y) :
                  s.grid[c] # NoBuilding
       THEN say("Tile Occupied!", None)
       ELSE LET s1 == add_building(s, building_key, grid_x, grid_y)
            IN [s1 EXCEPT !.current_alerts =
                              Append(@, Alert("Placed.", building_key))]

\* game_loop: a left click on the world at tile (grid_x, grid_y) while
\* building_key is the selected building type
PlaceCommand(s, building_key, grid_x, grid_y) ==
    LET building_data == BUILDING_TYPES[building_key]
        building_w == building_data.width_tiles
        building_h == building_data.height_tiles
        say(text, subject) ==
            [s EXCEPT !.current_alerts = Append(@, Alert(text, subject))]
    IN IF ~is_building_unlocked(s, building_key)
       THEN say("is Locked!", building_key)
       ELSE IF s.credits < building_data.cost
       THEN say("Insufficient Credits!", None)
       ELSE IF ~(/\ 0 <= grid_x /\ grid_x < GRID_WIDTH - (building_w - 1)
                 /\ 0 <= grid_y /\ grid_y < GRID_HEIGHT - (building_h - 1))
       THEN say("Out of Bounds!", None)
       ELSE IF \E c \in Footprint(building_key, grid_x, grid_y) :
                  s.grid[c] # NoBuilding
       THEN say("Tile Occupied!", None)
       ELSE LET s1 == add_building(s, building_key, grid_x, grid_y)
            IN [s1 EXCEPT !.current_alerts =
                              Append(@, Alert("Placed.", building_key))]

\* whether PlaceCommand reaches add_building
PlaceSucceeds(s, building_key, grid_x, grid_y) ==
    /\ is_building_unlocked(s, building_key)
    /\ s.credits >= BUILDING_TYPES[building_key].cost
    /\ 0 <= grid_x /\ grid_x < GRID_WIDTH - (BUILDING_TYPES[building_key].width_tiles - 1)
    /\ 0 <= grid_y /\ grid_y < GRID_HEIGHT - (BUILDING_TYPES[building_key].height_tiles - 1)
    /\ \A c \in Footprint(building_key, grid_x, grid_y) : s.grid[c] = NoBuilding

\* a click on an empty cell is not reported
RemoveCommand_silent(s, grid_x, grid_y) ==
    LET say(t, text, subject) ==
            [t EXCEPT !.current_alerts = Append(@, Alert(text, subject))]
    IN IF InGrid(grid_x, grid_y)
       THEN LET building_to_remove == s.grid[<<grid_x, grid_y>>]
            IN IF building_to_remove # NoBuilding
               THEN say(remove_building(s, grid_x, grid_y), "Demolished.",
                        building_to_remove.type_key)
               ELSE s
       ELSE say(s, "Cannot bulldoze out of bounds.", None)

\* game_loop: a left click on the world at tile (grid_x, grid_y) while the
\* bulldozer is the current tool
RemoveCommand(s, grid_x, grid_y) ==
    LET say(t, text, subject) ==
            [t EXCEPT !.current_alerts = Append(@, Alert(text, subject))]
    IN IF InGrid(grid_x, grid_y)
       THEN LET building_to_remove == s.grid[<<grid_x, grid_y>>]
            IN IF building_to_remove # NoBuilding
               THEN say(remove_building(s, grid_x, grid_y), "Demolished.",
                        building_to_remove.type_key)
               ELSE say(s, "Nothing to bulldoze.", None)
       ELSE say(s, "Cannot bulldoze out of bounds.", None)

\* UIManager._set_time_multiplier
set_time_multiplier(s, multiplier) == [s EXCEPT !.time_multiplier = multiplier]

\* UIManager.draw, for a UIManager that has been given its game state: the
\* timer counts the draws of a non-empty queue, and the draw in which it
\* exceeds FPS * 3 drops an alert and starts the timer again
\* UIManager.set_initial_game_state_ref has given the UIManager the game
\* state whose alerts it draws; a UIManager without one shows no alert
game_state_ref == TRUE

\* UIManager.draw: this is the draw that drops the head of the queue
AlertExpires(s, timer) ==
    /\ game_state_ref
    /\ s.current_alerts # <<>>
    /\ timer + 1 > FPS * 3

\* the newest alert is dropped: pop() for pop(0)
DrawnAlerts_newest(s, timer) ==
    IF AlertExpires(s, timer)
    THEN SubSeq(s.current_alerts, 1, Len(s.current_alerts) - 1)
    ELSE s.current_alerts

\* UIManager.draw: the queue it leaves
DrawnAlerts(s, timer) ==
    IF AlertExpires(s, timer) THEN Tail(s.current_alerts)
    ELSE s.current_alerts

\* UIManager.draw: the alert timer it leaves
DrawnTimer(s, timer) ==
    IF game_state_ref /\ s.current_alerts # <<>>
    THEN IF AlertExpires(s, timer) THEN 0 ELSE timer + 1
    ELSE 0

(***************************************************************************)
(* The frame loop: the commands arrive between ticks.                      *)
(***************************************************************************)
\* the tiles a click can name: those of the grid, and one row and one column
\* beyond it
ClickX == 0 .. GRID_WIDTH
ClickY == 0 .. GRID_HEIGHT

\* the building types selected in the runs of Spec
PlaceTypes == {"HAB_DOME", "SOLAR_PANEL_ARRAY", "RESOURCE_EXTRACTOR", "MINER_IRON"}

\* The alert at the head of the queue is dropped after it has been shown for
\* more than 3 * FPS frames (UIManager.draw), which is longer than a run of
\* MaxTime ticks: the queue only grows, and it holds one alert that is not
\* a promotion for every command issued so far.
CommandsIssued ==
    Len(SelectSeq(current_alerts, LAMBDA a : a.text # "Promoted to"))

Init ==
    /\ credits = InitialState.credits
    /\ population = InitialState.population
    /\ power_capacity = InitialState.power_capacity
    /\ power_demand = InitialState.power_demand
    /\ resources = InitialState.resources
    /\ buildings = InitialState.buildings
    /\ grid = InitialState.grid
    /\ game_time = InitialState.game_time
    /\ city_rank_index = InitialState.city_rank_index
    /\ city_value = InitialState.city_value
    /\ unlocked_technologies = InitialState.unlocked_technologies
    /\ current_alerts = InitialState.current_alerts
    /\ time_multiplier = InitialState.time_multiplier
    /\ resource_grid = InitialState.resource_grid
    /\ game_paused = FALSE
    /\ previous_time_multiplier = InitialState.time_multiplier
    /\ alert_timer = 0

Tick ==
    /\ game_time < MaxTime
    /\ Becomes(tick(State))

\* a click that places; a refused click only queues an alert (PlaceCommand)
Place ==
    /\ CommandsIssued < MaxCommands
    /\ \E k \in PlaceTypes, x \in ClickX, y \in ClickY :
          /\ PlaceSucceeds(State, k, x, y)
          /\ Becomes(PlaceCommand(State, k, x, y))

\* a bulldozer click on a cell that holds a building; on any other tile the
\* click only queues an alert (RemoveCommand)
Remove ==
    /\ CommandsIssued < MaxCommands
    /\ \E x \in ClickX, y \in ClickY :
          /\ InGrid(x, y)
          /\ grid[<<x, y>>] # NoBuilding
          /\ Becomes(RemoveCommand(State, x, y))

SetTimeMultiplier ==
    \E m \in TIME_MULTIPLIER_OPTIONS :
       /\ m # time_multiplier
       /\ Becomes(set_time_multiplier(State, m))

Next == Tick \/ Place \/ Remove \/ SetTimeMultiplier

Spec == Init /\ [][Next]_vars

\* The clicks of a session in which every click is followed, also the ones the
\* handlers refuse: a refused click queues its alert.  The queue holds one
\* alert that is not a promotion for every click so far.
MaxClicks == 4
\* tick() is not taken in these sessions once game_time has reached MaxClickTime
MaxClickTime == 1

\* the building types selected in the runs of SpecClicks: a single-tile type,
\* a two-tile type and a type whose technology is never unlocked
ClickTypes == {"HAB_DOME", "SPACEPORT", "FUEL_REFINERY"}

ClickPlace ==
    /\ CommandsIssued < MaxClicks
    /\ \E k \in ClickTypes, x \in ClickX, y \in ClickY :
          Becomes(PlaceCommand(State, k, x, y))

ClickRemove ==
    /\ CommandsIssued < MaxClicks
    /\ \E x \in ClickX, y \in ClickY :
          Becomes(RemoveCommand(State, x, y))

ClickTick ==
    /\ game_time < MaxClickTime
    /\ Becomes(tick(State))

NextClicks == ClickPlace \/ ClickRemove \/ ClickTick

SpecClicks == Init /\ [][NextClicks]_vars

\* The clicks queued for one frame: the event loop handles every queued click
\* before the frame's tick(), so every step here is a click.
NextEvents == ClickPlace \/ ClickRemove

SpecEvents == Init /\ [][NextEvents]_vars

\* The sessions of a colony that extracts ore and converts it: the types
\* selected are a generator, an extractor and a converter, whose costs the
\* initial credits bound.
MaxConvTime == 3

ConvTypes == {"SOLAR_PANEL_ARRAY", "RESOURCE_EXTRACTOR", "FACTORY_PARTS"}

ConvPlace ==
    \E k \in ConvTypes, x \in ClickX, y \in ClickY :
       /\ PlaceSucceeds(State, k, x, y)
       /\ Becomes(PlaceCommand(State, k, x, y))

ConvTick ==
    /\ game_time < MaxConvTime
    /\ Becomes(tick(State))

ConvSetTimeMultiplier ==
    \E m \in TIME_MULTIPLIER_OPTIONS :
       /\ m # time_multiplier
       /\ Becomes(set_time_multiplier(State, m))

NextConv == ConvPlace \/ ConvTick \/ ConvSetTimeMultiplier

SpecConv == Init /\ [][NextConv]_vars

\* The sessions of a colony that is built up to the value of the last rank
\* and taken down again: the types selected pay no income, so the initial
\* credits bound the placements.
MaxRankTime == 2

RankTypes == {"SOLAR_PANEL_ARRAY", "COMMAND_CENTER"}

RankPlace ==
    \E k \in RankTypes, x \in ClickX, y \in ClickY :
       /\ PlaceSucceeds(State, k, x, y)
       /\ Becomes(PlaceCommand(State, k, x, y))

RankRemove ==
    \E x \in ClickX, y \in ClickY :
       /\ InGrid(x, y)
       /\ grid[<<x, y>>] # NoBuilding
       /\ Becomes(RemoveCommand(State, x, y))

RankTick ==
    /\ game_time < MaxRankTime
    /\ Becomes(tick(State))

NextRank == RankPlace \/ RankRemove \/ RankTick

SpecRank == Init /\ [][NextRank]_vars

\* The sessions of a game that is paused and resumed.  game_loop reads the
\* visibility of the escape menu after the events of a frame: in the frame in
\* which the menu has become visible it stores the multiplier and sets it to
\* 0, and it calls tick() only in the frames in which the menu is not visible.
MaxPauseTime == 2

PauseTypes == {"HAB_DOME", "RESOURCE_EXTRACTOR", "FACTORY_PARTS"}

\* the frame in which the escape menu has become visible
Pause ==
    /\ ~game_paused
    /\ game_paused' = TRUE
    /\ previous_time_multiplier' = time_multiplier
    /\ Assign([State EXCEPT !.time_multiplier = 0])
    /\ UNCHANGED alert_timer

\* the frame in which the escape menu has been closed: the multiplier is
\* restored and the frame's tick() is taken
Unpause ==
    /\ game_paused
    /\ game_time < MaxPauseTime
    /\ game_paused' = FALSE
    /\ Assign(tick([State EXCEPT !.time_multiplier = previous_time_multiplier]))
    /\ UNCHANGED <<previous_time_multiplier, alert_timer>>

\* a click on the world is handled only while the game is not paused
PausePlace ==
    /\ ~game_paused
    /\ \E k \in PauseTypes, x \in ClickX, y \in ClickY :
          /\ PlaceSucceeds(State, k, x, y)
          /\ Becomes(PlaceCommand(State, k, x, y))

PauseTick ==
    /\ ~game_paused
    /\ game_time < MaxPauseTime
    /\ Becomes(tick(State))

PauseSetTimeMultiplier ==
    /\ ~game_paused
    /\ \E m \in TIME_MULTIPLIER_OPTIONS :
          /\ m # time_multiplier
          /\ Becomes(set_time_multiplier(State, m))

\* the loads of a session: the queue holds one alert for each
LoadsIssued ==
    Len(SelectSeq(current_alerts,
                  LAMBDA a : a.text \in {"Game Loaded!", "Failed to load game!"}))

\* a session loads at most MaxLoads times
MaxLoads == 1

\* the save and the load button of the escape menu, one after the other: the
\* game is saved and the file is loaded while the menu keeps the game paused
PauseLoad ==
    /\ game_paused
    /\ LoadsIssued < MaxLoads
    /\ Becomes(load_game(State, get_save_data(State)))

NextPause ==
    \/ Pause \/ Unpause \/ PausePlace \/ PauseTick \/ PauseSetTimeMultiplier
    \/ PauseLoad

SpecPause == Init /\ [][NextPause]_vars

\* The sessions of SpecRank, long enough for a colony of the first rank to be
\* promoted to the last, and with the frame loop's tick as a step that is
\* taken as long as it can be: game_loop calls tick() in every frame of a
\* game that is not paused.
MaxPromoteTime == 5

PromotePlace ==
    \E k \in RankTypes, x \in ClickX, y \in ClickY :
       /\ PlaceSucceeds(State, k, x, y)
       /\ Becomes(PlaceCommand(State, k, x, y))

PromoteRemove ==
    \E x \in ClickX, y \in ClickY :
       /\ InGrid(x, y)
       /\ grid[<<x, y>>] # NoBuilding
       /\ Becomes(RemoveCommand(State, x, y))

PromoteTick ==
    /\ game_time < MaxPromoteTime
    /\ Becomes(tick(State))

NextPromote == PromotePlace \/ PromoteRemove \/ PromoteTick

\* the frame's tick by what it does to game_time: the steps of NextPromote
\* that change game_time are those of PromoteTick, which can be taken
\* whenever game_time is below MaxPromoteTime
FrameTick ==
    /\ game_time < MaxPromoteTime
    /\ game_time' = game_time + 1

SpecPromote == Init /\ [][NextPromote]_vars /\ WF_game_time(FrameTick)

\* The sessions of a colony that is housed: the types selected are the
\* housing type and a generator, and the runs are long enough for a growth
\* interval at multiplier 1.
MaxPopTime == 10

PopTypes == {"HAB_DOME", "SOLAR_PANEL_ARRAY"}

PopPlace ==
    \E k \in PopTypes, x \in ClickX, y \in ClickY :
       /\ PlaceSucceeds(State, k, x, y)
       /\ Becomes(PlaceCommand(State, k, x, y))

PopTick ==
    /\ game_time < MaxPopTime
    /\ Becomes(tick(State))

PopSetTimeMultiplier ==
    \E m \in TIME_MULTIPLIER_OPTIONS :
       /\ m # time_multiplier
       /\ Becomes(set_time_multiplier(State, m))

NextPop == PopPlace \/ PopTick \/ PopSetTimeMultiplier

SpecPop == Init /\ [][NextPop]_vars

\* The frames of a session with the bulldozer on an empty colony, followed
\* through what they do to the alert queue: every click queues an alert, and
\* every frame ends with a draw, which game_loop calls whether or not the
\* game is paused.  The queue holds at most MaxClicks alerts.
AlertDraw ==
    /\ Assign([State EXCEPT !.current_alerts = DrawnAlerts(State, alert_timer)])
    /\ alert_timer' = DrawnTimer(State, alert_timer)
    /\ UNCHANGED <<game_paused, previous_time_multiplier>>

NextAlerts == ClickRemove \/ AlertDraw

\* a frame is drawn as long as the loop runs
SpecAlerts == Init /\ [][NextAlerts]_vars /\ WF_vars(AlertDraw)

\* a colony that is only built: commands and no tick
NextBuild == Place \/ Remove

SpecBuild == Init /\ [][NextBuild]_vars


(***************************************************************************)
(* Properties.  A property about what an operation does is stated in every *)
(* reachable state about the state the operation would leave.              *)
(***************************************************************************)
\* the sum of a configuration field over the buildings of s: over those whose
\* flag is set when only_operational, over all of them otherwise
SumOfField(s, field, only_operational) ==
    LET f == [i \in DOMAIN s.buildings |->
                 IF only_operational => s.buildings[i].is_operational
                 THEN Cfg(s.buildings[i])[field] ELSE 0]
    IN SumOver(s.buildings, f, 1)

\* the stored power values are what a recomputation from the flags gives
PowerMatchesFlags(s) ==
    /\ s.power_capacity = INITIAL_POWER + SumOfField(s, "power_gen", TRUE)
    /\ s.power_demand = SumOfField(s, "power_draw", TRUE)

\* C1: at the end of every tick and after every place and remove, the stored
\* power_capacity is the base power plus the power_gen of the structures whose
\* is_operational flag is set, and the stored power_demand is the power_draw
\* of those structures.
C1_StoredPowerMatchesFlags == PowerMatchesFlags(State)

\* the place and remove commands keep the stored power values true to the flags
C1_HoldsAfterCommands ==
    /\ \A k \in TypeKeys, x \in ClickX, y \in ClickY :
          PlaceSucceeds(State, k, x, y)
             => PowerMatchesFlags(PlaceCommand(State, k, x, y))
    /\ \A x \in ClickX, y \in ClickY :
          (InGrid(x, y) /\ grid[<<x, y>>] # NoBuilding)
             => PowerMatchesFlags(RemoveCommand(State, x, y))

\* the fields a place followed by a remove is compared on
PlaceThenRemove(s, k, x, y) == RemoveCommand(PlaceCommand(s, k, x, y), x, y)

Occupancy(s) == [c \in Cells |-> s.grid[c] # NoBuilding]

\* C2, as stated: a successful place immediately followed by the removal of
\* that structure restores credits, city_value, power_capacity, power_demand
\* and the grid occupancy.
C2_PlaceRemoveRestoresAll ==
    \A k \in TypeKeys, x \in ClickX, y \in ClickY :
       PlaceSucceeds(State, k, x, y) =>
          LET n == PlaceThenRemove(State, k, x, y)
          IN /\ n.credits = credits
             /\ n.city_value = city_value
             /\ n.power_capacity = power_capacity
             /\ n.power_demand = power_demand
             /\ Occupancy(n) = Occupancy(State)

\* C2, amended: a successful place immediately followed by the removal of that
\* structure restores city_value, the grid and the list of structures; credits
\* end lower by the cost of the structure (there is no refund); the stored
\* power values end as the recomputation over the flags of the structures
\* that were there before.
C2_PlaceRemoveRestores ==
    \A k \in TypeKeys, x \in ClickX, y \in ClickY :
       PlaceSucceeds(State, k, x, y) =>
          LET n == PlaceThenRemove(State, k, x, y)
          IN /\ n.credits = credits - BUILDING_TYPES[k].cost
             /\ n.city_value = city_value
             /\ n.grid = grid
             /\ n.buildings = buildings
             /\ n.power_capacity = update_power_balance(State).power_capacity
             /\ n.power_demand = update_power_balance(State).power_demand

\* a placement is possible in a colony whose stored demand a tick left
\* different from the demand of its flagged structures
C2_Witness ==
    /\ buildings # <<>>
    /\ game_time > 0
    /\ power_demand # update_power_balance(State).power_demand
    /\ \E k \in TypeKeys, x \in ClickX, y \in ClickY :
          /\ PlaceSucceeds(State, k, x, y)
          /\ PlaceThenRemove(State, k, x, y).credits < credits
          /\ PlaceThenRemove(State, k, x, y).grid = grid

\* C3: when a placement brings the demand above the capacity,
\* has_sufficient_power() is false, and after the next tick every structure
\* with power_draw > 0 has is_operational = false.
C3_OverloadTurnsConsumersOff ==
    \A k \in TypeKeys, x \in ClickX, y \in ClickY :
       LET p == PlaceCommand(State, k, x, y)
           n == tick(p)
       IN (/\ PlaceSucceeds(State, k, x, y)
           /\ has_sufficient_power(State)
           /\ p.power_demand > p.power_capacity)
          => /\ ~has_sufficient_power(p)
             /\ \A i \in DOMAIN n.buildings :
                   Cfg(n.buildings[i]).power_draw > 0
                      => ~n.buildings[i].is_operational

\* C4: in a colony that has been built and not ticked, power_capacity is the
\* base power plus the power_gen of all placed structures, power_demand is the
\* power_draw of all placed structures, and has_sufficient_power() holds
\* exactly when capacity >= demand, equality included.
C4_PowerOfBuiltColony ==
    /\ power_capacity = INITIAL_POWER + SumOfField(State, "power_gen", FALSE)
    /\ power_demand = SumOfField(State, "power_draw", FALSE)
    /\ has_sufficient_power(State) <=> ~(power_demand > power_capacity)

\* a generator and a consumer are placed, the demand equals the capacity, and
\* the power is sufficient
C4_Witness ==
    /\ game_time = 0
    /\ \E i \in DOMAIN buildings : Cfg(buildings[i]).power_gen > 0
    /\ \E i \in DOMAIN buildings : Cfg(buildings[i]).power_draw > 0
    /\ power_demand = power_capacity
    /\ has_sufficient_power(State)

\* the building of type k at (0, 0) whose flag is flag
BuildingWithFlag(k, flag) ==
    [NewBuilding(1, k, 0, 0) EXCEPT !.is_operational = flag]

\* the status rule of a type: a generator is operational, a consumer is
\* operational when the stored capacity covers the stored demand, any other
\* structure is operational
StatusRule(s, type_key) ==
    \/ BUILDING_TYPES[type_key].power_gen > 0
    \/ BUILDING_TYPES[type_key].power_draw <= 0
    \/ ~(s.power_capacity < s.power_demand)

\* C5: Building.update sets is_operational by the status rule, whatever the
\* flag was before: for every type and both values of the flag, and for every
\* placed building.
C5_StatusRule ==
    /\ \A k \in TypeKeys, flag \in BOOLEAN :
          OperationalStatus(State, BuildingWithFlag(k, flag)) = StatusRule(State, k)
    /\ \A i \in DOMAIN buildings :
          BuildingUpdate(State, i).buildings[i].is_operational
             = StatusRule(State, buildings[i].type_key)

\* the stored demand exceeds the stored capacity, and an update turns an
\* operational consumer off
C5_Witness ==
    /\ power_demand > power_capacity
    /\ \E i \in DOMAIN buildings :
          /\ Cfg(buildings[i]).power_draw > 0
          /\ buildings[i].is_operational
          /\ ~BuildingUpdate(State, i).buildings[i].is_operational

\* the stored demand is below the stored capacity again, and an update turns
\* a consumer that was off on
C5_WitnessRecovery ==
    /\ power_demand <= power_capacity
    /\ \E i \in DOMAIN buildings :
          /\ Cfg(buildings[i]).power_draw > 0
          /\ ~buildings[i].is_operational
          /\ BuildingUpdate(State, i).buildings[i].is_operational

C6_WitnessGrowth ==
    LET n == tick(State)
    IN /\ game_time < MaxTime
       /\ n.population = population + 1
       /\ n.population = PopulationCapacity(n)

AtTopRank(s) == s.city_rank_index = Len(CITY_RANKS) - 1

\* the threshold of the rank after the current one, below the top rank
NextThreshold(s) == CITY_RANKS[s.city_rank_index + 2].threshold_value

\* C7: a tick raises the rank index by at most one; by exactly one, appending
\* one promotion alert, when the city value has reached the threshold of the
\* next rank, however many further thresholds it has reached; by none, and
\* appending nothing, otherwise.
C7_OneRankPerTick ==
    LET n == tick(State)
    IN IF ~AtTopRank(State) /\ city_value >= NextThreshold(State)
       THEN /\ n.city_rank_index = city_rank_index + 1
            /\ n.current_alerts =
                  Append(current_alerts,
                         Alert("Promoted to",
                               CITY_RANKS[city_rank_index + 2].name))
       ELSE /\ n.city_rank_index = city_rank_index
            /\ n.current_alerts = current_alerts

\* a tick has just promoted the colony, and the city value has reached the
\* threshold of the rank after the new one as well
C7_Witness ==
    /\ game_time >= 1
    /\ current_alerts # <<>>
    /\ current_alerts[Len(current_alerts)].text = "Promoted to"
    /\ ~AtTopRank(State)
    /\ city_value >= NextThreshold(State)

Placements(s) ==
    [i \in DOMAIN s.buildings |->
        <<s.buildings[i].type_key, s.buildings[i].grid_x, s.buildings[i].grid_y>>]

\* C8: importing the snapshot that was just exported reproduces credits,
\* population, resources, city_value, the rank index and the placements.
C8_RoundTrip ==
    LET n == load_from_data(State, get_save_data(State))
    IN /\ n.credits = credits
       /\ n.population = population
       /\ n.resources = resources
       /\ n.city_value = city_value
       /\ n.city_rank_index = city_rank_index
       /\ Placements(n) = Placements(State)

\* an extractor whose type requires a node that its origin tile does not hold
OffNode(s, b) ==
    /\ IsExtractorKey(b.type_key)
    /\ Cfg(b).placed_on_node_type # None
    /\ s.resource_grid[<<b.grid_x, b.grid_y>>] # Cfg(b).placed_on_node_type

\* C9: the update of an extractor that is off its node changes no stockpile,
\* and a tick changes no stockpile whose extractors are all off their nodes.
C9_OffNodeProducesNothing ==
    LET s1 == [State EXCEPT !.game_time = @ + 1]
    IN /\ \A i \in DOMAIN buildings :
             OffNode(State, buildings[i])
                => BuildingUpdate(s1, i).resources = resources
       /\ \A r \in RESOURCE_TYPES :
             (\A i \in DOMAIN buildings :
                 Cfg(buildings[i]).resource_type = r
                    => OffNode(State, buildings[i]))
                => tick(State).resources[r] = resources[r]

\* a powered miner off its node, at the fastest multiplier, before the tick
\* of a full second
C9_Witness ==
    /\ game_time < MaxTime
    /\ (game_time + 1) % FPS = 0
    /\ time_multiplier > 1
    /\ has_sufficient_power(State)
    /\ \E i \in DOMAIN buildings :
          /\ OffNode(State, buildings[i])
          /\ buildings[i].is_operational
          /\ Cfg(buildings[i]).output_rate > 0

\* C10: a tick adds, to each stockpile, output_rate * time_multiplier once for
\* every extractor of it that is operational by the status rule and on a
\* matching node (or needs none) when the new game_time is a multiple of FPS,
\* and nothing in any other tick.
C10_ExtractorOncePerSecond ==
    LET n == tick(State)
    IN \A r \in RESOURCE_TYPES :
          LET once == [i \in DOMAIN buildings |->
                         IF /\ IsExtractorKey(buildings[i].type_key)
                            /\ Cfg(buildings[i]).resource_type = r
                            /\ ~OffNode(State, buildings[i])
                            /\ StatusRule(State, buildings[i].type_key)
                         THEN Cfg(buildings[i]).output_rate * time_multiplier
                         ELSE 0]
          IN n.resources[r] =
                resources[r] + (IF n.game_time % FPS = 0
                                THEN SumOver(buildings, once, 1) ELSE 0)

\* the cells of the footprint of a structure of the list
FootprintOf(b) == Footprint(b.type_key, b.grid_x, b.grid_y)

\* C12: the grid and the structures list agree: every footprint cell of every
\* structure in the list references that structure, every non-empty cell
\* references a structure that is in the list and whose footprint holds the
\* cell, and no two structures share a cell; also after a removal issued on a
\* cell of a multi-tile structure that is not its origin.
C12_GridAgreesWithList ==
    /\ \A i \in DOMAIN buildings :
          \A c \in FootprintOf(buildings[i]) :
             c \in Cells /\ grid[c].id = buildings[i].id
    /\ \A c \in Cells :
          grid[c] # NoBuilding
             => \E i \in DOMAIN buildings :
                   /\ buildings[i].id = grid[c].id
                   /\ c \in FootprintOf(buildings[i])
    /\ \A i, j \in DOMAIN buildings :
          i # j => FootprintOf(buildings[i]) \cap FootprintOf(buildings[j]) = {}

\* C13: city_value is the sum of the costs of the structures in the list.
C13_CityValueIsSumOfCosts == city_value = SumOfField(State, "cost", FALSE)

\* C14: credits are never negative.
C14_CreditsNeverNegative == credits >= 0

\* a click has just been refused for lack of credits
C14_Witness ==
    /\ current_alerts # <<>>
    /\ current_alerts[Len(current_alerts)].text = "Insufficient Credits!"
    /\ \E k \in ClickTypes : credits < BUILDING_TYPES[k].cost

\* the cells of a w x h rectangle whose top-left cell is (x, y)
Rectangle(x, y, w, h) == (x .. x + w - 1) \X (y .. y + h - 1)

\* C15: for every type selected in these sessions, a successful place
\* appends the new structure to the list, makes every cell of its footprint
\* (and no other cell) reference it, lowers credits and raises city_value by
\* its cost, leaves the stored power values true to the
\* flags, the new structure counted, and raises the rank by one exactly when
\* the new city value has reached the next threshold.
C15_PlaceEffects ==
    \A k \in ClickTypes, x \in ClickX, y \in ClickY :
       PlaceSucceeds(State, k, x, y) =>
          LET n == PlaceCommand(State, k, x, y)
              b == n.buildings[Len(n.buildings)]
              cost == BUILDING_TYPES[k].cost
              cells == Rectangle(x, y, BUILDING_TYPES[k].width_tiles,
                                 BUILDING_TYPES[k].height_tiles)
          IN /\ Len(n.buildings) = Len(buildings) + 1
             /\ SubSeq(n.buildings, 1, Len(buildings)) = buildings
             /\ b.type_key = k /\ b.grid_x = x /\ b.grid_y = y
             /\ b.is_operational
             /\ b.id \notin IdsInUse(State)
             /\ \A c \in Cells :
                   n.grid[c] = IF c \in cells THEN [id |-> b.id, type_key |-> k]
                               ELSE grid[c]
             /\ cells \subseteq Cells
             /\ n.credits = credits - cost
             /\ n.city_value = city_value + cost
             /\ PowerMatchesFlags(n)
             /\ n.city_rank_index =
                   IF ~AtTopRank(State) /\ city_value + cost >= NextThreshold(State)
                   THEN city_rank_index + 1 ELSE city_rank_index

\* the two-tile structure has just been placed
C15_Witness ==
    /\ current_alerts # <<>>
    /\ current_alerts[Len(current_alerts)] = Alert("Placed.", "SPACEPORT")
    /\ buildings # <<>>
    /\ buildings[Len(buildings)].type_key = "SPACEPORT"
    /\ Cardinality({c \in Cells : grid[c].id = buildings[Len(buildings)].id}) = 2

\* the list q without its elements whose identity is id
WithoutId(q, id) == SelectSeq(q, LAMBDA b : b.id # id)

\* C16: a remove command on a cell that holds a structure releases every cell
\* that references the structure and no other cell, deletes the structure
\* from the list, lowers city_value by its cost with a floor of 0, leaves the
\* stored power values true to the flags, raises the rank by one exactly when
\* the next threshold is still reached, and leaves credits as they were,
\* whichever cell of the structure was clicked.
C16_RemoveEffects ==
    \A x \in ClickX, y \in ClickY :
       (InGrid(x, y) /\ grid[<<x, y>>] # NoBuilding) =>
          LET ref == grid[<<x, y>>]
              n == RemoveCommand(State, x, y)
              value == IF city_value >= BUILDING_TYPES[ref.type_key].cost
                       THEN city_value - BUILDING_TYPES[ref.type_key].cost
                       ELSE 0
          IN /\ \A c \in Cells :
                   n.grid[c] = IF grid[c].id = ref.id THEN NoBuilding ELSE grid[c]
             /\ n.buildings = WithoutId(buildings, ref.id)
             /\ n.city_value = value
             /\ PowerMatchesFlags(n)
             /\ n.city_rank_index =
                   IF ~AtTopRank(State) /\ value >= NextThreshold(State)
                   THEN city_rank_index + 1 ELSE city_rank_index
             /\ n.credits = credits

\* the last alert of the queue of s
LastAlert(s) == s.current_alerts[Len(s.current_alerts)]

\* C17, as stated: a place command issued while credits < cost is refused with
\* the insufficient-credits alert, whatever the unlock status of the type,
\* the origin and the occupancy of the grid.
C17_InsufficientFundsAlways ==
    \A k \in TypeKeys, x \in ClickX, y \in ClickY :
       credits < BUILDING_TYPES[k].cost
          => LastAlert(PlaceCommand(State, k, x, y)).text = "Insufficient Credits!"

\* C17, amended: a place command issued while credits < cost creates nothing
\* and queues one alert, whatever the origin and the occupancy of the grid:
\* the insufficient-credits alert when the type is unlocked, the locked alert
\* of the type when it is locked.
C17_InsufficientFundsWhenUnlocked ==
    \A k \in TypeKeys, x \in ClickX, y \in ClickY :
       credits < BUILDING_TYPES[k].cost
          => PlaceCommand(State, k, x, y) =
                [State EXCEPT !.current_alerts =
                    Append(@, IF is_building_unlocked(State, k)
                              THEN Alert("Insufficient Credits!", None)
                              ELSE Alert("is Locked!", k))]

\* a click on a locked type that the credits do not pay for has just been
\* refused, and an unlocked type is too expensive as well
C17_Witness ==
    /\ current_alerts # <<>>
    /\ LastAlert(State).text = "is Locked!"
    /\ credits < BUILDING_TYPES[LastAlert(State).subject].cost
    /\ \E k \in ClickTypes :
          is_building_unlocked(State, k) /\ credits < BUILDING_TYPES[k].cost

\* C18: a place command creates a structure only if the type is unlocked,
\* credits >= cost, every cell of the footprint lies inside the grid and every
\* cell of the footprint is empty; otherwise the list and the grid stay as
\* they are.
C18_PlaceOnlyWhenAllowed ==
    \A k \in ClickTypes, x \in ClickX, y \in ClickY :
       LET n == PlaceCommand(State, k, x, y)
           cells == Rectangle(x, y, BUILDING_TYPES[k].width_tiles,
                              BUILDING_TYPES[k].height_tiles)
           allowed == /\ is_building_unlocked(State, k)
                      /\ credits >= BUILDING_TYPES[k].cost
                      /\ cells \subseteq Cells
                      /\ \A c \in cells : grid[c] = NoBuilding
       IN IF allowed
          THEN Len(n.buildings) = Len(buildings) + 1
          ELSE n.buildings = buildings /\ n.grid = grid

\* a click on an occupied tile, for a type that is unlocked and paid for, has
\* just been refused
C18_Witness ==
    /\ current_alerts # <<>>
    /\ LastAlert(State).text = "Tile Occupied!"
    /\ \E i \in DOMAIN buildings : buildings[i].type_key = "SPACEPORT"

RefusalTexts ==
    {"is Locked!", "Insufficient Credits!", "Out of Bounds!", "Tile Occupied!"}

\* C19: a place command is refused whenever the type is locked, the credits
\* are below the cost, a footprint cell lies outside the grid or a footprint
\* cell is occupied, and a refused place command changes nothing but the alert
\* queue, to which it appends one alert.
C19_RefusedPlaceChangesNothing ==
    \A k \in ClickTypes, x \in ClickX, y \in ClickY :
       LET n == PlaceCommand(State, k, x, y)
           cells == Rectangle(x, y, BUILDING_TYPES[k].width_tiles,
                              BUILDING_TYPES[k].height_tiles)
           refused == \/ ~is_building_unlocked(State, k)
                      \/ credits < BUILDING_TYPES[k].cost
                      \/ ~(cells \subseteq Cells)
                      \/ \E c \in cells \cap Cells : grid[c] # NoBuilding
       IN refused =>
             /\ LastAlert(n).text \in RefusalTexts
             /\ n = [State EXCEPT !.current_alerts = Append(@, LastAlert(n))]

\* two clicks in a row have been refused, for different reasons
C19_Witness ==
    /\ Len(current_alerts) >= 2
    /\ LastAlert(State).text \in RefusalTexts
    /\ current_alerts[Len(current_alerts) - 1].text \in RefusalTexts
    /\ current_alerts[Len(current_alerts) - 1].text # LastAlert(State).text
    /\ buildings # <<>>

\* C20: a remove command on an empty cell changes nothing but the alert
\* queue, to which it appends the nothing-to-bulldoze alert, and
\* remove_building on an empty cell changes nothing at all.
C20_RemoveOnEmptyCell ==
    \A x \in ClickX, y \in ClickY :
       (InGrid(x, y) /\ grid[<<x, y>>] = NoBuilding) =>
          /\ RemoveCommand(State, x, y) =
                [State EXCEPT !.current_alerts =
                    Append(@, Alert("Nothing to bulldoze.", None))]
          /\ remove_building(State, x, y) = State

\* a click of the bulldozer on an empty cell of a colony with structures has
\* just been reported
C20_Witness ==
    /\ current_alerts # <<>>
    /\ LastAlert(State) = Alert("Nothing to bulldoze.", None)
    /\ buildings # <<>>
    /\ \E c \in Cells : grid[c] = NoBuilding

\* the state after n more ticks
RECURSIVE RunTicks(_, _)
RunTicks(s, n) == IF n = 0 THEN s ELSE RunTicks(tick(s), n - 1)

\* the runs compared by C11 are at most MaxRun ticks long
MaxRun == 4

\* every structure is operational and the stored power, which is true to the
\* flags, is sufficient: ticks alone keep it so
Steady(s) ==
    /\ \A i \in DOMAIN s.buildings : s.buildings[i].is_operational
    /\ PowerMatchesFlags(s)
    /\ ~(s.power_demand > s.power_capacity)

Converters(s) == {i \in DOMAIN s.buildings : IsFactoryKey(s.buildings[i].type_key)}

\* the state is steady and its only converter has just been placed, or has
\* just ended a cycle with nothing left on its timer
FreshConverter(s, i) ==
    /\ Converters(s) = {i}
    /\ s.buildings[i].production_timer_ticks = 0
    /\ Steady(s)

\* the ticks of a cycle at multiplier 1, for converter i
CycleTicks(s, i) == Cfg(s.buildings[i]).cycle_time_seconds * FPS

\* the stock of input pays for one cycle per unit the timer can gain in n
\* ticks at multiplier m
InputFor(s, i, m, n) ==
    s.resources[Cfg(s.buildings[i]).input_resource]
       >= Cfg(s.buildings[i]).input_amount * m * n

\* the cycles converter i completes in n ticks at multiplier m
CyclesIn(s, i, m, n) ==
    (RunTicks(set_time_multiplier(s, m), n).resources[Cfg(s.buildings[i]).output_resource]
        - s.resources[Cfg(s.buildings[i]).output_resource])
       \div Cfg(s.buildings[i]).output_rate

Ceiling(a, b) == (a + b - 1) \div b

C22_StockpilesNeverNegative ==
    \A r \in DOMAIN resources : resources[r] >= 0

\* two converters have drawn the stock of their common input down to less
\* than the input of one cycle
C22_Witness ==
    /\ Cardinality(Converters(State)) >= 2
    /\ \A i \in Converters(State) :
          /\ resources[Cfg(buildings[i]).output_resource] > 0
          /\ resources[Cfg(buildings[i]).input_resource]
                < Cfg(buildings[i]).input_amount
    /\ time_multiplier > 1

\* C23: each tick() increases game_time by exactly 1, whatever the time
\* multiplier and whatever structures are placed.
C23_TickAdvancesTimeByOne == tick(State).game_time = game_time + 1

\* ticks have been taken at the fastest multiplier in a colony with
\* structures, and game_time counts them one by one
C23_Witness ==
    /\ game_time = MaxConvTime
    /\ time_multiplier > 1
    /\ Len(buildings) >= 2

\* the production timers of the structures of s, in list order
Timers(s) ==
    [i \in DOMAIN s.buildings |-> s.buildings[i].production_timer_ticks]

\* C24: a tick() executed with time_multiplier = 0 completes normally,
\* advances game_time by exactly 1, and leaves credits, every resource
\* stockpile, every converter counter and population unchanged.
C24_TickAtMultiplierZero ==
    time_multiplier = 0 =>
       LET n == tick(State)
       IN /\ tick_completes(State)
          /\ n.game_time = game_time + 1
          /\ n.credits = credits
          /\ n.resources = resources
          /\ Timers(n) = Timers(State)
          /\ n.population = population

\* the unlock conditions a type can carry: a population, a rank name of the
\* catalog or one that is not in it, a technology, in every combination
UnlockConditions ==
    [has_pop : BOOLEAN, pop : {2},
     has_rank : BOOLEAN, rank : {"Colony Supervisor", "Galactic Regent"},
     has_tech : BOOLEAN, tech : {"fuel_processing"}]

\* the sets of technologies a snapshot can have unlocked
TechnologySets == SUBSET {"fuel_processing", "basic_manufacturing"}

\* the rank names of the catalog
RankNames == {CITY_RANKS[i].name : i \in DOMAIN CITY_RANKS}

\* what the claim says of conditions c in state s
UnlockRule(s, c) ==
    \/ ~c.has_pop /\ ~c.has_rank /\ ~c.has_tech
    \/ /\ c.has_pop => s.population >= c.pop
       /\ c.has_rank =>
             /\ c.rank \in RankNames
             /\ \E i \in DOMAIN CITY_RANKS :
                   CITY_RANKS[i].name = c.rank /\ s.city_rank_index >= i - 1
       /\ c.has_tech => c.tech \in s.unlocked_technologies

\* C25: is_unlocked(type) is true when the type has no unlock conditions, and
\* otherwise exactly when every specified condition holds: population >=
\* required population, rank index >= index of the required rank name (a name
\* that is not in the catalog is never satisfied), required technology in
\* the unlocked set; for every type of the configuration, every combination
\* of conditions and every set of unlocked technologies.
C25_IsUnlocked ==
    \A T \in TechnologySets :
       LET s == [State EXCEPT !.unlocked_technologies = T]
       IN /\ \A c \in UnlockConditions :
                ConditionsHold(s, c) <=> UnlockRule(s, c)
          /\ \A k \in TypeKeys :
                is_building_unlocked(s, k) <=> UnlockRule(s, BUILDING_TYPES[k])

\* the population has fallen below the one a type requires while the rank
\* another type requires has been reached
C25_Witness ==
    /\ game_time > 0
    /\ population < 2
    /\ city_rank_index >= 2
    /\ ~is_building_unlocked(State, "MINER_IRON")
    /\ is_building_unlocked(State, "SPACEPORT")
    /\ ~is_building_unlocked(State, "FUEL_REFINERY")

\* the cells the structures of a snapshot claim
SnapshotCells(data) ==
    UNION { Footprint(data.buildings_data[i].type_key,
                      data.buildings_data[i].grid_x,
                      data.buildings_data[i].grid_y) :
               i \in DOMAIN data.buildings_data }

\* C26: after a successful import of a snapshot, credits and city_value equal
\* the snapshot's values exactly, and the grid holds exactly the footprints
\* of the snapshot's structures.
C26_ImportTakesSnapshotValues ==
    LET data == get_save_data(State)
        n == load_from_data(State, data)
    IN load_succeeds(State, data) =>
          /\ n.credits = data.credits
          /\ n.city_value = data.city_value
          /\ \A c \in Cells : n.grid[c] # NoBuilding <=> c \in SnapshotCells(data)

\* the import leaves city_value and the grid as the snapshot has them
C26_ImportTakesValueAndGrid ==
    LET data == get_save_data(State)
        n == load_from_data(State, data)
    IN load_succeeds(State, data) =>
          /\ n.city_value = data.city_value
          /\ \A c \in Cells : n.grid[c] # NoBuilding <=> c \in SnapshotCells(data)

\* the type requires a node that tile (x, y) does not hold
NodeMismatch(s, k, x, y) ==
    /\ BUILDING_TYPES[k].placed_on_node_type # None
    /\ InGrid(x, y)
    /\ NodeAt(s, x, y) # BUILDING_TYPES[k].placed_on_node_type

\* the alerts a command appended to the queue of s, n being the state it left
Appended(s, n) ==
    SubSeq(n.current_alerts, Len(s.current_alerts) + 1, Len(n.current_alerts))

\* C27: placing an extractor on a tile whose node does not match the type's
\* required node succeeds (the structure is created and charged) and appends
\* a node-mismatch warning to the alert queue: an alert that is neither the
\* confirmation of the placement nor a promotion.
C27_MismatchedNodeWarned ==
    \A k \in TypeKeys, x \in ClickX, y \in ClickY :
       (PlaceSucceeds(State, k, x, y) /\ NodeMismatch(State, k, x, y)) =>
          LET n == PlaceCommand(State, k, x, y)
          IN /\ Len(n.buildings) = Len(buildings) + 1
             /\ n.credits = credits - BUILDING_TYPES[k].cost
             /\ \E j \in DOMAIN Appended(State, n) :
                   Appended(State, n)[j].text \notin {"Placed.", "Promoted to"}

\* the placement on a mismatched node succeeds
C27_MismatchedNodePermitted ==
    \A k \in TypeKeys, x \in ClickX, y \in ClickY :
       (PlaceSucceeds(State, k, x, y) /\ NodeMismatch(State, k, x, y)) =>
          LET n == PlaceCommand(State, k, x, y)
          IN /\ Len(n.buildings) = Len(buildings) + 1
             /\ n.credits = credits - BUILDING_TYPES[k].cost

C29_StatusFromSettledPower ==
    \A i \in DOMAIN buildings :
       tick(State).buildings[i].is_operational
          = StatusRule(State, buildings[i].type_key)

\* C30: a tick adds to credits income * time_multiplier once for every
\* income-bearing structure that is operational by the status rule, when the
\* new game_time is a multiple of FPS, and nothing in any other tick, so
\* that FPS consecutive ticks pay each such structure once.
C30_IncomeOncePerSecond ==
    LET n == tick(State)
        once == [i \in DOMAIN buildings |->
                   IF /\ Cfg(buildings[i]).income > 0
                      /\ StatusRule(State, buildings[i].type_key)
                   THEN Cfg(buildings[i]).income * time_multiplier
                   ELSE 0]
    IN n.credits = credits + (IF n.game_time % FPS = 0
                              THEN SumOver(buildings, once, 1) ELSE 0)

\* outside the tick that pays, credits are left alone
C30_NoIncomeBetweenSeconds ==
    tick(State).game_time % FPS # 0 => tick(State).credits = credits

\* a converter: a factory type whose configuration names both resources
\* and positive amounts
IsConverter(b) ==
    /\ IsFactoryKey(b.type_key)
    /\ Cfg(b).input_resource # None /\ Cfg(b).output_resource # None
    /\ Cfg(b).input_amount > 0 /\ Cfg(b).output_rate > 0

\* C31: the cycle counter of an operational converter advances by exactly
\* 1 * time_multiplier per tick(): in a tick in which the counter stays below
\* the ticks of a cycle, so that no completion is processed, the counter the
\* tick leaves is the counter before it plus the time multiplier.
C31_CounterAdvancesByMultiplier ==
    \A i \in DOMAIN buildings :
       (/\ IsConverter(buildings[i])
        /\ StatusRule(State, buildings[i].type_key)
        /\ buildings[i].production_timer_ticks + time_multiplier
              < CycleTicks(State, i))
       => tick(State).buildings[i].production_timer_ticks
             = buildings[i].production_timer_ticks + time_multiplier

\* the update of converter i completes a cycle while the stock of its input
\* is below input_amount
CompletesShort(s, i) ==
    /\ IsConverter(s.buildings[i])
    /\ OperationalStatus(s, s.buildings[i])
    /\ s.buildings[i].production_timer_ticks + s.time_multiplier
          >= CycleTicks(s, i)
    /\ ResGet(s.resources, Cfg(s.buildings[i]).input_resource)
          < Cfg(s.buildings[i]).input_amount

\* C32: when the cycle of a converter completes while the stockpile holds
\* less than the required input, the update debits and credits nothing and
\* leaves the counter at exactly cycle_time_seconds * FPS, not at the counter
\* modulo that number.
C32_StalledCounterClamped ==
    \A i \in DOMAIN buildings :
       CompletesShort(State, i) =>
          /\ BuildingUpdate(State, i).resources = resources
          /\ BuildingUpdate(State, i).buildings[i].production_timer_ticks
                = CycleTicks(State, i)

\* the stalled update moves no resource
C32_StalledCycleMovesNothing ==
    \A i \in DOMAIN buildings :
       CompletesShort(State, i) => BuildingUpdate(State, i).resources = resources

\* what the stalled update leaves in the counter: the counter modulo the
\* ticks of a cycle
C32_StalledCounterWrapped ==
    \A i \in DOMAIN buildings :
       CompletesShort(State, i) =>
          BuildingUpdate(State, i).buildings[i].production_timer_ticks
             = (buildings[i].production_timer_ticks + time_multiplier)
                  % CycleTicks(State, i)

\* the multipliers at which single updates are looked at: the runs select 1
\* and 5 of config.TIME_MULTIPLIER_OPTIONS, and at its largest, 10, an update
\* completes two cycles of a counter at 0
CycleMultipliers == TIME_MULTIPLIER_OPTIONS \cup {10}

\* the cycles the update of converter i attempts: counter // required_ticks
CyclesAttempted(s, i) ==
    (s.buildings[i].production_timer_ticks + s.time_multiplier)
       \div CycleTicks(s, i)

\* the cycles the stock of the input pays for, one after the other
CyclesPaid(s, i) ==
    Min(CyclesAttempted(s, i),
        s.resources[Cfg(s.buildings[i]).input_resource]
           \div Cfg(s.buildings[i]).input_amount)

\* the update of converter i at multiplier m reaches the ticks of a cycle
ReachesCycle(s, i) ==
    /\ IsConverter(s.buildings[i])
    /\ OperationalStatus(s, s.buildings[i])
    /\ CyclesAttempted(s, i) >= 1

\* C33: an update in which the counter of a converter reaches the ticks of a
\* cycle attempts counter // required_ticks cycles; each cycle that finds
\* input_amount in the stock debits exactly input_amount and credits exactly
\* output_rate, and the first cycle that finds the stock short ends the loop
\* and moves nothing: the update moves CyclesPaid cycles and no other
\* resource.
C33_CyclesPerUpdate ==
    \A m \in CycleMultipliers, i \in DOMAIN buildings :
       LET s == set_time_multiplier(State, m)
           c == Cfg(buildings[i])
       IN ReachesCycle(s, i) =>
             BuildingUpdate(s, i).resources =
                [resources EXCEPT
                   ![c.input_resource] = @ - CyclesPaid(s, i) * c.input_amount,
                   ![c.output_resource] = @ + CyclesPaid(s, i) * c.output_rate]

\* an update attempts two cycles with a stock that pays for the first and
\* not for the second
C33_Witness ==
    \E m \in CycleMultipliers, i \in DOMAIN buildings :
       LET s == set_time_multiplier(State, m)
       IN /\ ReachesCycle(s, i)
          /\ CyclesAttempted(s, i) = 2
          /\ CyclesPaid(s, i) = 1
          /\ BuildingUpdate(s, i).resources # resources

\* C34: a structure that is Offline after its status evaluation does no work
\* in that update: the update changes its is_operational flag and nothing
\* else, neither credits, nor a stockpile, nor its converter counter, and the
\* structure stays in the structures list and on the grid.
C34_OfflineDoesNoWork ==
    \A i \in DOMAIN buildings :
       ~OperationalStatus(State, buildings[i]) =>
          BuildingUpdate(State, i)
             = [State EXCEPT !.buildings[i].is_operational = FALSE]

\* the update turns off a converter whose counter would advance, and one of
\* the structures it turns off would produce or be paid at this game_time
C34_Witness ==
    /\ game_time > 0
    /\ game_time % FPS = 0
    /\ \E i \in DOMAIN buildings :
          /\ IsConverter(buildings[i])
          /\ buildings[i].is_operational
          /\ ~OperationalStatus(State, buildings[i])
    /\ \E i \in DOMAIN buildings :
          /\ IsExtractorKey(buildings[i].type_key)
          /\ ~OperationalStatus(State, buildings[i])

\* C35: no operation that can run while the game is paused (time_multiplier
\* = 0) fails with a division by zero: the import of the well-formed snapshot
\* saved from the paused game succeeds.
C35_PausedImportSucceeds ==
    game_paused => load_succeeds(State, get_save_data(State))

\* the multiplier of a paused game is 0
C35_PausedMultiplierZero == game_paused => time_multiplier = 0

\* the housing capacity of s: the capacity of the housing type for every
\* housing structure whose flag is operational, nothing for the others
HousingCapacity(s) ==
    BUILDING_TYPES["HAB_DOME"].capacity
       * Cardinality({i \in DOMAIN s.buildings :
                         /\ s.buildings[i].type_key = "HAB_DOME"
                         /\ s.buildings[i].is_operational})

\* the ticks between two growth steps and between two decline steps at
\* multiplier m
GrowthInterval(m) == Max(1, (5 * FPS) \div m)
DeclineInterval(m) == Max(1, (2 * FPS) \div m)

\* C36: a tick raises a population below the housing capacity by exactly 1
\* when the new game_time is a multiple of max(1, 5 * FPS / time_multiplier),
\* lowers a population above the capacity by exactly 1 when it is a multiple
\* of max(1, 2 * FPS / time_multiplier), and leaves the population alone in
\* every other tick and when it equals the capacity; the capacity is that of
\* the housing operational in the tick.
C36_PopulationSteps ==
    LET n == tick(State)
        cap == HousingCapacity(n)
    IN n.population =
          IF population < cap
          THEN IF n.game_time % GrowthInterval(time_multiplier) = 0
               THEN population + 1 ELSE population
          ELSE IF population > cap
          THEN IF n.game_time % DeclineInterval(time_multiplier) = 0
               THEN population - 1 ELSE population
          ELSE population

\* a tick at multiplier 1 ends a growth interval and raises the population of
\* a colony that has lost population before
C36_Witness ==
    /\ time_multiplier = 1
    /\ game_time < MaxPopTime
    /\ population < INITIAL_POPULATION
    /\ tick(State).population = population + 1

RankIndices == 1 .. Len(CITY_RANKS) - 1
ThresholdOf(k) == CITY_RANKS[k + 1].threshold_value

\* city_value has reached the threshold of rank k, the rank index is below
\* k, and the run has the k - index ticks left
AwaitsRank(k) ==
    /\ city_value >= ThresholdOf(k)
    /\ city_rank_index < k
    /\ game_time + (k - city_rank_index) <= MaxPromoteTime

\* C38: if city_value stays at or above the threshold of rank k, the rank
\* index eventually reaches at least k; from index i < k, j <= k - i further
\* ticks leave the index at i + j, one level per tick, so that k is reached
\* after at most k - i ticks.
C38_RankReached ==
    /\ [](\A k \in RankIndices :
             (city_value >= ThresholdOf(k) /\ city_rank_index < k) =>
                \A j \in 1 .. k - city_rank_index :
                   RunTicks(State, j).city_rank_index = city_rank_index + j)
    /\ \A k \in RankIndices :
          AwaitsRank(k) ~> (city_rank_index >= k \/ city_value < ThresholdOf(k))

\* the city value has reached the threshold of the last rank while the colony
\* is three ranks below it
C38_Witness ==
    /\ city_value >= ThresholdOf(Len(CITY_RANKS) - 1)
    /\ city_rank_index = Len(CITY_RANKS) - 4
    /\ AwaitsRank(Len(CITY_RANKS) - 1)

\* the structures of s that draw power and generate none
Consumers(s) ==
    {i \in DOMAIN s.buildings :
        Cfg(s.buildings[i]).power_gen = 0 /\ Cfg(s.buildings[i]).power_draw > 0}

\* the power drawn and the power generated by all the structures of s,
\* whatever their flags
TotalDraw(s) ==
    SumOver(s.buildings,
            [i \in DOMAIN s.buildings |-> Cfg(s.buildings[i]).power_draw], 1)
TotalGen(s) ==
    SumOver(s.buildings,
            [i \in DOMAIN s.buildings |-> Cfg(s.buildings[i]).power_gen], 1)

\* the structures placed draw more than the base capacity and the generators
\* give
Overloaded(s) == TotalDraw(s) > INITIAL_POWER + TotalGen(s)

\* C39: a colony whose structures draw more than the base capacity plus the
\* generated power never settles under ticks alone: of two consecutive ticks,
\* each leaves the flag of every power-drawing structure the opposite of what
\* the other leaves, and one leaves the stored power_demand 0 and the other
\* the sum of all draws.
C39_OverloadAlternates ==
    Overloaded(State) =>
       LET n1 == tick(State)
           n2 == tick(n1)
       IN /\ \A i \in Consumers(State) :
                n2.buildings[i].is_operational = ~n1.buildings[i].is_operational
          /\ {n1.power_demand, n2.power_demand} = {0, TotalDraw(State)}

\* ticks have left several consumers of an overloaded colony offline with the
\* full demand stored, and the next tick turns them on
C39_Witness ==
    /\ Overloaded(State)
    /\ game_time >= 2
    /\ game_time < MaxPopTime
    /\ Cardinality(Consumers(State)) >= 2
    /\ power_demand = TotalDraw(State)
    /\ \A i \in Consumers(State) :
          /\ ~buildings[i].is_operational
          /\ tick(State).buildings[i].is_operational

\* a snapshot whose last structure record has lost its type
Corrupted(data) ==
    [data EXCEPT !.buildings_data = Append(@, [grid_x |-> 0, grid_y |-> 0])]

\* the save files loaded: the game as it was saved at its start and as it is
\* saved now, each whole or corrupted
SaveFiles(s) ==
    {get_save_data(InitialState), get_save_data(s),
     Corrupted(get_save_data(InitialState)), Corrupted(get_save_data(s))}

\* C40: an import that fails (load_from_data returns False) leaves credits,
\* population, resources, game_time, the rank, city_value, the structures
\* list and the grid exactly as they were before the call.
C40_FailedImportChangesNothing ==
    \A data \in SaveFiles(State) :
       ~load_succeeds(State, data) =>
          LET n == load_from_data(State, data)
          IN /\ n.credits = credits
             /\ n.population = population
             /\ n.resources = resources
             /\ n.game_time = game_time
             /\ n.city_rank_index = city_rank_index
             /\ n.city_value = city_value
             /\ n.buildings = buildings
             /\ n.grid = grid

\* a whole save file is imported when the game is not paused
C40_WholeFileLoadsWhenRunning ==
    \A data \in {get_save_data(InitialState), get_save_data(State)} :
       ~game_paused => load_succeeds(State, data)

====
